---- MODULE Spec2Model ----
(***************************************************************************)
(* Model of the traceroute engine of icmp/trace.go: the Trace object, the  *)
(* hop prober NextHop, the two scan producers Run (single pass, batches of *)
(* retries) and MRun (continuous), the enrichment helpers of MRun, and the *)
(* PrintPretty consumer of Run.  The network, the RIPE service and the     *)
(* interrupt signal are the environment: every outcome they can produce is *)
(* a nondeterministic choice.                                              *)
(***************************************************************************)
EXTENDS Integers, Sequences, FiniteSets, TLC

VARIABLES
    mode,       \* which scan was started on the tracer: "Run" or "MRun"
    seq,        \* Trace.seq
    ttl,        \* Trace.ttl
    maxTTL,     \* Trace.maxTTL
    count,      \* Trace.count
    ripe,       \* Trace.ripe
    report,     \* Trace.report
    flagC,      \* the value of the -c flag (-1 when not given)
    wait,       \* Trace.wait: the duration string of the -w flag
    resolve,    \* Trace.resolve
    pSize,      \* Trace.pSize
    proto,      \* Trace.icmp, Trace.udp, Trace.tcp: "icmp", "udp" or "tcp"
    budget,     \* exploration bound: MRun calls Send at most this often
    fd,         \* Trace.fd: "open" or "closed"
    fdCloses,   \* number of syscall.Close(i.fd) calls made so far
    runErr,     \* the error Run or MRun returned: "" until it returns,
                \* then "nil" or "err"
    pc,         \* position of the producer goroutine
    h,          \* loop variable h of the producer
    n,          \* loop variable n of Run
    buf,        \* backing array of the slice r of Run
    rlen,       \* len(r) of Run
    hop,        \* variable hop of MRun
    curMax,     \* local maxTTL of MRun
    cnt,        \* local count of MRun
    ch,         \* channel c: buffered values (a slice header is its length)
    chClosed,   \* channel c is closed
    cpc,        \* position of the consumer
    cr,         \* len(r) of the batch the consumer holds
    ASN,        \* the map ASN of MRun
    MU,         \* sync.Mutex MU of MRun: "" when free, else the ip of the
                \* helper that holds it
    helpers,    \* per ip, the helper goroutines started and waiting in MU.Lock
    hw,         \* variable w of the helper holding MU: Absent until whois
                \* returned
    crashed,    \* the process died of an unrecovered panic or fatal error
    exitKind,   \* how the producer ended: "", "normal" or "panic"
    cancelled,  \* the consumer closed the channel
    sent,       \* history: the seq of every Send so far, in order
    emitCount,  \* history: number of values the producer put on the channel
    minLast,    \* history: smallest num of an emitted result with last, 0 if none
    errProbed,  \* history: a probe returned a result carrying err
    errEmitted, \* history: a result carrying err was put on the channel
    firstSeen,  \* history: router IPs for which a result was emitted
    cacheSince, \* history: the cache entries of hop.ip since the probe of
                \* hop returned (Absent: no entry)
    cycles,     \* history: hop numbers emitted in each completed cycle of MRun
    curCycle,   \* history: hop numbers emitted in the running cycle of MRun
    recvFail,   \* history: Recv failed in the NextHop call that returned last
    firstLast,  \* history: hop number of the first result with last that
                \* MRun emitted (0: none yet)
    lookups,    \* history: per address, the lookupAddr calls made so far
    frames,     \* Recv: the frames the socket delivers within the wait window
    recv,       \* Recv: what the call returned
    lport,      \* Sendv4: the local port drawn for the UDP probe
    msg,        \* Sendv4: the bytes udpMessage built
    data,       \* checkSum: the byte sequence
    sum         \* checkSum: the value returned

pktVars    == <<frames, recv, lport, msg, data, sum>>
cfgVars    == <<mode, maxTTL, count, ripe, report, flagC, budget, wait,
                resolve, pSize, proto, pktVars>>
tracerVars == <<cfgVars, seq, ttl, fd, fdCloses, runErr>>
prodVars   == <<pc, h, n, buf, rlen, hop, curMax, cnt, exitKind>>
chanVars   == <<ch, chClosed, cpc, cr, cancelled>>
asnVars    == <<ASN, MU, helpers, hw>>
histVars   == <<sent, emitCount, minLast, errProbed, errEmitted, firstSeen,
                cacheSince, cycles, curCycle, recvFail, firstLast, lookups>>
vars == <<tracerVars, prodVars, chanVars, asnVars, crashed, histVars>>

----------------------------------------------------------------------------
(* Bounds of the exploration *)

MaxTTLBound == 3    \* largest value of the -m flag explored
MaxProbes == 5      \* probes of one MRun in Spec
MaxReportProbes == 10   \* probes of one MRun in SpecReport
MaxReportTTL == 1   \* largest value of the -m flag in SpecReport
MaxCycles == 10     \* MRun starts at most this many cycles
MaxHelpers == 1     \* enrichment goroutines alive at the same time
MaxFrames == 2      \* frames one Recv call reads
MaxPSize == 60      \* largest value of the -p flag explored
MaxDataLen == 3     \* longest byte sequence given to checkSum

(* Program constants *)

Retry == 3              \* PrintPretty: i.Run(3)
DefaultCount == 10      \* NewTrace: t.setReportDCount(10)
FirstSeq == 1           \* NewTrace: seq: 1
ChanCap == 1            \* make(chan ..., 1)
DefaultPSize == 52      \* NewTrace: cli.SetFlag(flag, "p", 52)
IpIdBase == 38840       \* Send: id = 38840 + seq
Port == 33434           \* NextHop: port = 33434

(* Environment: the resolved addresses of the target and the routers that
   may answer a probe *)

FlagCValues == {-1, 1, 2}
TargetIPs == {"8.8.8.8"}
RouterIPs == {"10.0.0.1"}
NoWhois == 0
AsnOf(ip) == IF ip \in TargetIPs THEN 15169 ELSE 64500

(* the map ASN: a function from the keys present to their Whois *)
Absent == -1
EmptyMap == [ip \in {} |-> NoWhois]
MapGet(m, ip) == IF ip \in DOMAIN m THEN m[ip] ELSE Absent
MapPut(m, ip, w) == [x \in DOMAIN m \cup {ip} |-> IF x = ip THEN w ELSE m[x]]

Min(a, b) == IF a < b THEN a ELSE b

----------------------------------------------------------------------------
(* HopResp values *)

HopErr(num) ==
    [num |-> num, ip |-> "", elapsed |-> 0, last |-> FALSE, err |-> TRUE,
     whois |-> NoWhois]
HopTimeout(num) ==
    [num |-> num, ip |-> "", elapsed |-> 0, last |-> FALSE, err |-> FALSE,
     whois |-> NoWhois]
HopReply(num, src) ==
    [num |-> num, ip |-> src, elapsed |-> 1, last |-> src \in TargetIPs,
     err |-> FALSE, whois |-> NoWhois]

(* the zero HopResp *)
NoHop == HopTimeout(0)

----------------------------------------------------------------------------
(* Recv: the parsed frames (ICMPResp) and the test that accepts one *)

EchoReply == "echo-reply"
TimeExceeded == "time-exceeded"
Unreachable == "unreachable"

(* time.ParseDuration(i.wait): the duration in seconds, or an error *)
ValidWaits == {"2s"}
Waits == ValidWaits \cup {"2x"}
DefaultWait == "2s"
ParseDuration(w) ==
    IF w \in ValidWaits THEN [du |-> 2, err |-> FALSE]
    ELSE [du |-> 0, err |-> TRUE]

(* os.Getpid()&0xffff, the identifier of the echo requests, and another
   process's *)
IcmpId == 4242
ForeignId == 4243
OtherDst == "192.0.2.9"

IpId(sq) == IpIdBase + sq

Frame(typ, id, sq, src, dst, ipid) ==
    [typ |-> typ, id |-> id, seq |-> sq, src |-> src, dst |-> dst,
     ipid |-> ipid]

(* the zero ICMPResp *)
NoResp == Frame("", 0, 0, "", "", 0)

(* echo replies come from the target, errors from a router; sq is the seq
   of the outstanding probe *)
Frames(sq) ==
    {Frame(typ, id, fsq, IF typ = EchoReply THEN t ELSE r, dst, ipid) :
        typ \in {EchoReply, TimeExceeded, Unreachable},
        id \in {IcmpId, ForeignId},
        fsq \in {sq, sq + 1},
        t \in TargetIPs, r \in RouterIPs,
        dst \in TargetIPs \cup {OtherDst},
        ipid \in {IpId(sq), 0}}

RECURSIVE SeqsUpTo(_, _)
SeqsUpTo(S, k) ==
    IF k = 0 THEN {<<>>}
    ELSE LET T == SeqsUpTo(S, k - 1)
         IN T \cup {Append(t, x) : t \in {u \in T : Len(u) = k - 1}, x \in S}

wID(id, f) == f.typ = EchoReply /\ id # f.id
wSeq(sq, f) == sq # f.seq
wDst(f) == \A t \in TargetIPs : f.dst # t
wV4(id, f) == id # f.ipid /\ f.ipid # 0

(* the test of Recv that sends the loop back to read the next frame *)
WrongResponse(id, sq, f) ==
    \/ proto = "icmp" /\ wSeq(sq, f)
    \/ proto # "icmp" /\ (wDst(f) \/ wID(id, f) \/ wV4(id, f))

(* Recv(id, seq) over the frames fs that arrive before the wait is over:
   the first frame that passes the test is returned; when none does the
   call ends with an error (EAGAIN, or "wrong response" with the frame read
   last) *)
RECURSIVE Recv(_, _, _, _)
Recv(id, sq, fs, resp) ==
    IF fs = <<>> THEN [resp |-> resp, err |-> TRUE]
    ELSE IF WrongResponse(id, sq, Head(fs))
         THEN Recv(id, sq, Tail(fs), Head(fs))
         ELSE [resp |-> Head(fs), err |-> FALSE]

NoRecv == [resp |-> NoResp, err |-> FALSE]

(* what the socket delivers to one probe of a scan: nothing, a frame of
   another probe, the time-exceeded of a router or the reply of the target *)
Arrivals(sq) ==
    {<<>>}
      \cup {<<Frame(TimeExceeded, IcmpId, sq + 1, r, t, IpId(sq + 1))>> :
                r \in RouterIPs, t \in TargetIPs}
      \cup {<<Frame(TimeExceeded, IcmpId, sq, r, t, IpId(sq))>> :
                r \in RouterIPs, t \in TargetIPs}
      \cup {<<Frame(EchoReply, IcmpId, sq, t, t, IpId(sq))>> : t \in TargetIPs}

(* dnsCache = make(map[string][]string): the keys of the map NextHop makes
   on every call *)
dnsCache == {}

(* if name, ok = dnsCache[resp.src.String()]; !ok { lookupAddr(resp.src) } *)
LookupAddr(sendErr, r) ==
    IF ~sendErr /\ ~r.err /\ resolve /\ r.resp.src \notin dnsCache
    THEN {r.resp.src} ELSE {}

NextHopRecvErr(num, sendErr, r) ==
    IF sendErr \/ r.err THEN HopErr(num) ELSE HopReply(num, r.resp.src)

(* NextHop(hop): Send fails (err), Recv fails (empty result), or a reply
   from some address arrives; last is set when the address is one of i.ips *)
NextHop(num, sendErr, r) ==
    IF sendErr THEN HopErr(num)
    ELSE IF r.err THEN HopTimeout(num)
    ELSE HopReply(num, r.resp.src)

(* Send: seq = i.seq is the number of the probe; i.seq++ comes before the
   socket is opened, so it runs whether or not the send fails *)
SeqAfterSendOk(s, failed) == IF failed THEN s ELSE s + 1
SeqAfterSend(s, failed) == s + 1
Send(failed) ==
    /\ sent' = Append(sent, seq)
    /\ seq' = SeqAfterSend(seq, failed)

(* setReportDCount(c): i.count is the -c flag unless -R is set and -c is not *)
setReportDCount(c) == IF report /\ flagC < 0 THEN c ELSE flagC

(* whois(ip): the value on success, the zero value on error *)
whois(ip) == {AsnOf(ip), NoWhois}

(* MHopResp.Less and sort.Sort (insertion sort for short slices) *)
Less(a, b) == Len(a.ip) > Len(b.ip)

RECURSIVE InsertSorted(_, _)
InsertSorted(s, x) ==
    IF s = <<>> THEN <<x>>
    ELSE IF Less(x, s[Len(s)])
         THEN Append(InsertSorted(SubSeq(s, 1, Len(s) - 1), x), s[Len(s)])
         ELSE Append(s, x)

RECURSIVE Sort(_)
Sort(s) ==
    IF s = <<>> THEN <<>>
    ELSE InsertSorted(Sort(SubSeq(s, 1, Len(s) - 1)), s[Len(s)])

(* the slice r of Run: the first rlen elements of its backing array *)
Slice(a, len) == SubSeq(a, 1, len)

(* append(r, x) when the array has room writes in place *)
AppendTo(a, len, x) ==
    IF len < Len(a) THEN [a EXCEPT ![len + 1] = x] ELSE Append(Slice(a, len), x)

(* write the elements of s over the first Len(s) elements of a *)
Overwrite(a, s) == [i \in 1..Len(a) |-> IF i <= Len(s) THEN s[i] ELSE a[i]]

HasLastOrErr(s) == \E i \in 1..Len(s) : s[i].last \/ s[i].err
HasErr(s) == \E i \in 1..Len(s) : s[i].err

LastNums(s) == {s[i].num : i \in {j \in 1..Len(s) : s[j].last}}
MinOf(S) == CHOOSE x \in S : \A y \in S : x <= y
NewMinLast(m, s) ==
    IF LastNums(s) = {} THEN m
    ELSE IF m = 0 THEN MinOf(LastNums(s)) ELSE Min(m, MinOf(LastNums(s)))

NoLast == 0
NoMsg == [lport |-> 0, rport |-> 0, length |-> 0, checksum |-> 0,
          payload |-> -1]
NoSum == -1

----------------------------------------------------------------------------
(* NewTrace followed by Run or MRun up to the call of Bind *)

Start ==
    /\ seq = FirstSeq
    /\ ttl = 0
    /\ count = setReportDCount(DefaultCount)
    /\ fd = "none"
    /\ fdCloses = 0
    /\ runErr = ""
    /\ pc = "bind"
    /\ h = 1
    /\ n = 0
    /\ buf = <<>>
    /\ rlen = 0
    /\ hop = NoHop
    /\ curMax = maxTTL
    /\ cnt = 0
    /\ ch = <<>>
    /\ chClosed = FALSE
    /\ cpc = "select"
    /\ cr = 0
    /\ ASN = EmptyMap
    /\ MU = ""
    /\ helpers = [ip \in RouterIPs \cup TargetIPs |-> 0]
    /\ hw = Absent
    /\ crashed = FALSE
    /\ exitKind = ""
    /\ cancelled = FALSE
    /\ sent = <<>>
    /\ emitCount = 0
    /\ minLast = 0
    /\ errProbed = FALSE
    /\ errEmitted = FALSE
    /\ firstSeen = {}
    /\ cacheSince = {}
    /\ cycles = <<>>
    /\ curCycle = <<>>
    /\ recvFail = FALSE
    /\ firstLast = NoLast
    /\ lookups = [ip \in RouterIPs \cup TargetIPs |-> 0]

(* no packet function has been called *)
NoPackets ==
    /\ frames = <<>>
    /\ recv = NoRecv
    /\ lport = 0
    /\ msg = NoMsg
    /\ data = <<>>
    /\ sum = NoSum

(* an ICMP trace with the default wait and packet size, and with -n *)
Defaults ==
    /\ wait = DefaultWait
    /\ resolve = FALSE
    /\ pSize = DefaultPSize
    /\ proto = "icmp"
    /\ NoPackets

(* the flags explored: any scan; -R and -c play no part in Run, -nr none in
   MRun *)
Init ==
    /\ mode \in {"Run", "MRun"}
    /\ maxTTL \in 0..MaxTTLBound
    /\ report \in BOOLEAN
    /\ flagC \in FlagCValues
    /\ ripe \in BOOLEAN
    /\ mode = "Run" => ~report /\ flagC = -1
    /\ mode = "MRun" => ripe
    /\ budget = MaxProbes
    /\ Defaults
    /\ Start

(* trace -R on a short path, followed to the end of the report *)
InitReport ==
    /\ mode = "MRun"
    /\ maxTTL \in 0..MaxReportTTL
    /\ report = TRUE
    /\ flagC \in FlagCValues
    /\ ripe = TRUE
    /\ budget = MaxReportProbes
    /\ Defaults
    /\ Start

RecoverNoClose ==
    /\ fd' = fd
    /\ fdCloses' = fdCloses
    /\ pc' = "done"
    /\ exitKind' = "panic"

(* the deferred recover of the producer: close the socket and return *)
Recover ==
    /\ fd' = "closed"
    /\ fdCloses' = fdCloses + 1
    /\ pc' = "done"
    /\ exitKind' = "panic"

(* bookkeeping of one emission of the values s *)
Emit(s) ==
    /\ emitCount' = emitCount + 1
    /\ minLast' = NewMinLast(minLast, s)
    /\ errEmitted' = (errEmitted \/ HasErr(s))

(* one more lookupAddr call for every address of S *)
Looked(l, S) == [ip \in DOMAIN l |-> IF ip \in S THEN l[ip] + 1 ELSE l[ip]]

----------------------------------------------------------------------------
(* Bind, called by Run and MRun before the producer goroutine is started *)

(* SetDeadLine: the error of SetReadDeadLine when i.wait does not parse *)
SetDeadLine == ParseDuration(wait).err

(* Bind: the socket call or the bind call may fail and Bind returns that
   error; the error of SetDeadLine is printed and Bind goes on.  Run and MRun
   return Bind's error without starting the goroutine; PrintPretty returns *)
BindResult(o) == IF o = "ok" THEN "nil" ELSE "err"
Bind ==
    /\ ~crashed /\ pc = "bind"
    /\ \E o \in {"socket", "bind", "ok"} :
        /\ fd' = IF o = "socket" THEN "none" ELSE "open"
        /\ runErr' = BindResult(o)
        /\ pc' = IF o = "ok" THEN "probe" ELSE "noscan"
        /\ cpc' = IF o = "ok" THEN cpc ELSE "done"
    /\ UNCHANGED <<cfgVars, seq, ttl, fdCloses, h, n, buf, rlen, hop, curMax,
                   cnt, exitKind, ch, chClosed, cr, cancelled, asnVars,
                   crashed, histVars>>

----------------------------------------------------------------------------
(* Run: the producer goroutine *)

(* hop := i.NextHop(h); r = append(r, hop); break on hop.err *)
RunProbe ==
    /\ mode = "Run" /\ ~crashed /\ pc = "probe"
    /\ h <= maxTTL /\ n < Retry
    /\ \E sendErr \in BOOLEAN, fs \in Arrivals(seq) :
        LET r == Recv(IpId(seq), seq, fs, NoResp)
            x == NextHop(h, sendErr, r)
        IN  /\ ttl' = h
            /\ Send(x.err)
            /\ recvFail' = (~sendErr /\ r.err)
            /\ lookups' = Looked(lookups, LookupAddr(sendErr, r))
            /\ buf' = AppendTo(buf, rlen, x)
            /\ rlen' = rlen + 1
            /\ errProbed' = (errProbed \/ x.err)
            /\ IF x.err \/ n + 1 >= Retry
               THEN pc' = "whois" /\ n' = n
               ELSE pc' = "probe" /\ n' = n + 1
    /\ UNCHANGED <<cfgVars, runErr, fd, fdCloses, h, hop, curMax,
                   cnt, exitKind, chanVars, asnVars, crashed, emitCount,
                   minLast, errEmitted, firstSeen,
                   cacheSince, cycles, curCycle, firstLast>>

(* for h := 1; h <= i.maxTTL: the loop ends *)
RunLoopEnd ==
    /\ mode = "Run" /\ ~crashed /\ pc = "probe"
    /\ h > maxTTL
    /\ pc' = "close"
    /\ UNCHANGED <<tracerVars, h, n, buf, rlen, hop, curMax, cnt, exitKind,
                   chanVars, asnVars, crashed, histVars>>

(* addWhois(R): one whois call per distinct non-empty ip of the batch, the
   zero value when it fails; every entry takes the value of its ip *)
addWhois(R, f) ==
    [i \in 1..Len(R) |->
        [R[i] EXCEPT !.whois = IF R[i].ip = "" THEN NoWhois ELSE f[R[i].ip]]]

BatchIPs(R) == {R[i].ip : i \in 1..Len(R)} \ {""}

(* if i.ripe { i.addWhois(r[:]) } *)
RunWhois ==
    /\ mode = "Run" /\ ~crashed /\ pc = "whois"
    /\ IF ripe
       THEN \E f \in [BatchIPs(Slice(buf, rlen)) -> BOOLEAN] :
               buf' = Overwrite(buf, addWhois(Slice(buf, rlen),
                        [ip \in DOMAIN f |-> IF f[ip] THEN AsnOf(ip) ELSE NoWhois]))
       ELSE buf' = buf
    /\ pc' = "send"
    /\ UNCHANGED <<tracerVars, h, n, rlen, hop, curMax, cnt, exitKind,
                   chanVars, asnVars, crashed, histVars>>

(* whois panics inside addWhois (a type assertion on the RIPE answer): the
   deferred recover closes the socket, the channel stays open *)
RunWhoisPanic ==
    /\ mode = "Run" /\ ~crashed /\ pc = "whois"
    /\ ripe /\ BatchIPs(Slice(buf, rlen)) # {}
    /\ Recover
    /\ UNCHANGED <<cfgVars, runErr, seq, ttl, h, n, buf, rlen, hop,
                   curMax, cnt, chanVars, asnVars, crashed, histVars>>

(* c <- r on an open channel with room *)
RunSend ==
    /\ mode = "Run" /\ ~crashed /\ pc = "send"
    /\ ~chClosed /\ Len(ch) < ChanCap
    /\ ch' = Append(ch, rlen)
    /\ Emit(Slice(buf, rlen))
    /\ pc' = "check"
    /\ UNCHANGED <<tracerVars, h, n, buf, rlen, hop, curMax, cnt, exitKind,
                   chClosed, cpc, cr, cancelled, asnVars, crashed, sent,
                   errProbed, firstSeen, cacheSince, cycles, curCycle,
                   recvFail, firstLast, lookups>>

(* c <- r on a closed channel panics; recover closes the socket *)
RunSendClosed ==
    /\ mode = "Run" /\ ~crashed /\ pc = "send"
    /\ chClosed
    /\ Recover
    /\ UNCHANGED <<cfgVars, runErr, seq, ttl, h, n, buf, rlen, hop,
                   curMax, cnt, chanVars, asnVars, crashed, histVars>>

(* for _, R := range r { if R.last || R.err != nil { break LOOP } }; r = r[:0] *)
RunCheck ==
    /\ mode = "Run" /\ ~crashed /\ pc = "check"
    /\ IF HasLastOrErr(Slice(buf, rlen))
       THEN pc' = "close" /\ UNCHANGED <<h, n, rlen>>
       ELSE pc' = "probe" /\ h' = h + 1 /\ n' = 0 /\ rlen' = 0
    /\ UNCHANGED <<tracerVars, buf, hop, curMax, cnt, exitKind, chanVars,
                   asnVars, crashed, histVars>>

(* close(c) *)
RunClose ==
    /\ mode = "Run" /\ ~crashed /\ pc = "close"
    /\ ~chClosed
    /\ chClosed' = TRUE
    /\ pc' = "closefd"
    /\ UNCHANGED <<tracerVars, h, n, buf, rlen, hop, curMax, cnt, exitKind,
                   ch, cpc, cr, cancelled, asnVars, crashed, histVars>>

(* close(c) on a channel the consumer closed panics; recover closes the socket *)
RunCloseClosed ==
    /\ mode = "Run" /\ ~crashed /\ pc = "close"
    /\ chClosed
    /\ Recover
    /\ UNCHANGED <<cfgVars, runErr, seq, ttl, h, n, buf, rlen, hop,
                   curMax, cnt, chanVars, asnVars, crashed, histVars>>

(* syscall.Close(i.fd) *)
RunCloseFd ==
    /\ mode = "Run" /\ ~crashed /\ pc = "closefd"
    /\ fd' = "closed"
    /\ fdCloses' = fdCloses + 1
    /\ pc' = "done"
    /\ exitKind' = "normal"
    /\ UNCHANGED <<cfgVars, runErr, seq, ttl, h, n, buf, rlen, hop,
                   curMax, cnt, chanVars, asnVars, crashed, histVars>>

----------------------------------------------------------------------------
(* PrintPretty: the consumer of Run *)

(* the indexing r[0], r[1], r[2] of the printing code panics on a batch
   shorter than three entries unless the first test already holds *)
PrintPanics(r) ==
    \/ Len(r) < 2
    \/ Len(r) = 2 /\ ~(r[1].ip # r[2].ip /\ r[2].elapsed = 0)

(* case r, ok := <-resp with a value: stop on an err entry *)
PPRecv ==
    /\ mode = "Run" /\ ~crashed /\ cpc = "select"
    /\ ch # <<>>
    /\ ch' = Tail(ch)
    /\ IF HasErr(Slice(buf, Head(ch)))
       THEN cpc' = "done" /\ cr' = 0
       ELSE cpc' = "sort" /\ cr' = Head(ch)
    /\ UNCHANGED <<tracerVars, prodVars, chClosed, cancelled, asnVars,
                   crashed, histVars>>

(* counter++; sort.Sort(MHopResp(r)) in place, then the printing code *)
PPSort ==
    /\ mode = "Run" /\ ~crashed /\ cpc = "sort"
    /\ buf' = Overwrite(buf, Sort(Slice(buf, cr)))
    /\ crashed' = PrintPanics(Sort(Slice(buf, cr)))
    /\ cpc' = "select"
    /\ cr' = 0
    /\ UNCHANGED <<tracerVars, pc, h, n, rlen, hop, curMax, cnt, exitKind,
                   ch, chClosed, cancelled, asnVars, histVars>>

(* case r, ok := <-resp with !ok *)
PPRecvClosed ==
    /\ mode = "Run" /\ ~crashed /\ cpc = "select"
    /\ ch = <<>> /\ chClosed
    /\ cpc' = "done"
    /\ UNCHANGED <<tracerVars, prodVars, ch, chClosed, cr, cancelled, asnVars,
                   crashed, histVars>>

(* case <-sigCh: close(resp); closing a closed channel panics *)
PPSigint ==
    /\ mode = "Run" /\ ~crashed /\ cpc = "select"
    /\ IF chClosed
       THEN crashed' = TRUE /\ UNCHANGED <<chClosed, cancelled>>
       ELSE chClosed' = TRUE /\ cancelled' = TRUE /\ UNCHANGED crashed
    /\ cpc' = "done"
    /\ UNCHANGED <<tracerVars, prodVars, ch, cr, asnVars, histVars>>

----------------------------------------------------------------------------
(* MRun: the producer goroutine *)

(* for h := 1; h <= maxTTL: hop := i.NextHop(h) *)
MProbe ==
    /\ mode = "MRun" /\ ~crashed /\ pc = "probe"
    /\ h <= curMax
    /\ seq - FirstSeq < budget
    /\ \E sendErr \in BOOLEAN, fs \in Arrivals(seq) :
        LET r == Recv(IpId(seq), seq, fs, NoResp)
            x == NextHop(h, sendErr, r)
        IN  /\ hop' = x
            /\ errProbed' = (errProbed \/ x.err)
            /\ cacheSince' = {MapGet(ASN, x.ip)}
            /\ Send(x.err)
            /\ recvFail' = (~sendErr /\ r.err)
            /\ lookups' = Looked(lookups, LookupAddr(sendErr, r))
    /\ ttl' = h
    /\ pc' = "lookup"
    /\ UNCHANGED <<cfgVars, runErr, fd, fdCloses, h, n, buf, rlen, curMax, cnt,
                   exitKind, chanVars, asnVars, crashed, emitCount, minLast,
                   errEmitted, firstSeen, cycles, curCycle, firstLast>>

(* a helper executes ASN[hop.ip] = w *)
Writing == MU # "" /\ hw # Absent

RECURSIVE Sum(_, _)
Sum(f, S) == IF S = {} THEN 0
             ELSE LET x == CHOOSE y \in S : TRUE IN f[x] + Sum(f, S \ {x})
LiveHelpers == Sum(helpers, DOMAIN helpers) + (IF MU = "" THEN 0 ELSE 1)

(* if w, ok := ASN[hop.ip]; ok { hop.whois = w }, read without the mutex;
   when a helper is writing the same key the read may see its value *)
Readable(ip) ==
    IF Writing /\ MU = ip THEN {ASN, MapPut(ASN, ip, hw)} ELSE {ASN}
CacheHitUnused(m, x) == x
CacheHit(m, x) == [x EXCEPT !.whois = m[x.ip]]
MLookupHit ==
    /\ mode = "MRun" /\ ~crashed /\ pc = "lookup"
    /\ \E m \in Readable(hop.ip) :
        /\ hop.ip \in DOMAIN m
        /\ hop' = CacheHit(m, hop)
    /\ pc' = "send"
    /\ UNCHANGED <<tracerVars, h, n, buf, rlen, curMax, cnt, exitKind,
                   chanVars, asnVars, crashed, histVars>>

(* else if hop.ip != "" { go func(...) }: a helper is started for the ip *)
MLookupMiss ==
    /\ mode = "MRun" /\ ~crashed /\ pc = "lookup"
    /\ hop.ip \notin DOMAIN ASN
    /\ IF hop.ip # ""
       THEN /\ LiveHelpers < MaxHelpers
            /\ helpers' = [helpers EXCEPT ![hop.ip] = @ + 1]
       ELSE helpers' = helpers
    /\ pc' = "send"
    /\ UNCHANGED <<tracerVars, h, n, buf, rlen, hop, curMax, cnt, exitKind,
                   chanVars, ASN, MU, hw, crashed, histVars>>

(* the read of the map runs while a helper writes it: the runtime may stop
   the process with "concurrent map read and map write" *)
MLookupFatal ==
    /\ mode = "MRun" /\ ~crashed /\ pc = "lookup"
    /\ Writing
    /\ crashed' = TRUE
    /\ UNCHANGED <<tracerVars, prodVars, chanVars, asnVars, histVars>>

(* if hop.last && maxTTL == i.maxTTL { maxTTL = h } *)
Shrink(cm, x, hh) == IF x.last /\ cm = maxTTL THEN hh ELSE cm

(* c <- hop on an open channel with room, then the shrink test and h++;
   the variable hop of this iteration is gone *)
MSend ==
    /\ mode = "MRun" /\ ~crashed /\ pc = "send"
    /\ ~chClosed /\ Len(ch) < ChanCap
    /\ ch' = Append(ch, hop)
    /\ Emit(<<hop>>)
    /\ firstSeen' = firstSeen \cup ({hop.ip} \ {""})
    /\ curCycle' = Append(curCycle, hop.num)
    /\ firstLast' = IF hop.last /\ firstLast = NoLast
                    THEN h ELSE firstLast
    /\ recvFail' = FALSE
    /\ curMax' = Shrink(curMax, hop, h)
    /\ h' = h + 1
    /\ hop' = NoHop
    /\ cacheSince' = {}
    /\ pc' = "probe"
    /\ UNCHANGED <<tracerVars, n, buf, rlen, cnt, exitKind, chClosed, cpc,
                   cr, cancelled, asnVars, crashed, sent, errProbed, cycles,
                   lookups>>

(* c <- hop on a closed channel panics; recover closes the socket *)
MSendClosed ==
    /\ mode = "MRun" /\ ~crashed /\ pc = "send"
    /\ chClosed
    /\ Recover
    /\ UNCHANGED <<cfgVars, runErr, seq, ttl, h, n, buf, rlen, hop,
                   curMax, cnt, chanVars, asnVars, crashed, histVars>>

FinishedAlways(c) == c >= count
FinishedLate(c) == count > 0 /\ c > count

(* count++; if i.count > 0 && count >= i.count { break LOOP } *)
Finished(c) == count > 0 /\ c >= count

(* the inner loop ends: one more cycle is complete *)
MCycleEnd ==
    /\ mode = "MRun" /\ ~crashed /\ pc = "probe"
    /\ h > curMax
    /\ cnt < MaxCycles
    /\ cnt' = cnt + 1
    /\ cycles' = Append(cycles, [nums |-> curCycle, bound |-> curMax])
    /\ curCycle' = <<>>
    /\ IF Finished(cnt + 1)
       THEN pc' = "close" /\ h' = h
       ELSE pc' = "probe" /\ h' = 1
    /\ UNCHANGED <<tracerVars, n, buf, rlen, hop, curMax, exitKind, chanVars,
                   asnVars, crashed, sent, emitCount, minLast, errProbed,
                   errEmitted, firstSeen, cacheSince, recvFail, firstLast,
                   lookups>>

(* close(c): the goroutine returns, the socket is not touched *)
MClose ==
    /\ mode = "MRun" /\ ~crashed /\ pc = "close"
    /\ ~chClosed
    /\ chClosed' = TRUE
    /\ pc' = "done"
    /\ exitKind' = "normal"
    /\ UNCHANGED <<tracerVars, h, n, buf, rlen, hop, curMax, cnt, ch, cpc,
                   cr, cancelled, asnVars, crashed, histVars>>

(* close(c) on a channel the consumer closed panics; recover closes the socket *)
MCloseClosed ==
    /\ mode = "MRun" /\ ~crashed /\ pc = "close"
    /\ chClosed
    /\ Recover
    /\ UNCHANGED <<cfgVars, runErr, seq, ttl, h, n, buf, rlen, hop,
                   curMax, cnt, chanVars, asnVars, crashed, histVars>>

----------------------------------------------------------------------------
(* The enrichment goroutines of MRun *)

(* MU.Lock() *)
HLock ==
    /\ ~crashed /\ MU = ""
    /\ \E ip \in DOMAIN helpers :
        /\ helpers[ip] > 0
        /\ helpers' = [helpers EXCEPT ![ip] = @ - 1]
        /\ MU' = ip
    /\ UNCHANGED <<tracerVars, prodVars, chanVars, ASN, hw, crashed, histVars>>

(* w, _ := whois(hop.ip) *)
HWhois ==
    /\ ~crashed /\ MU # "" /\ hw = Absent
    /\ hw' \in whois(MU)
    /\ UNCHANGED <<tracerVars, prodVars, chanVars, ASN, MU, helpers, crashed,
                   histVars>>

(* whois panics in the helper: nothing recovers it, the process dies *)
HWhoisPanic ==
    /\ ~crashed /\ MU # "" /\ hw = Absent
    /\ crashed' = TRUE
    /\ UNCHANGED <<tracerVars, prodVars, chanVars, asnVars, histVars>>

(* ASN[hop.ip] = w; the deferred MU.Unlock() *)
HStore ==
    /\ ~crashed /\ Writing
    /\ ASN' = MapPut(ASN, MU, hw)
    /\ cacheSince' = IF MU = hop.ip THEN cacheSince \cup {hw} ELSE cacheSince
    /\ MU' = ""
    /\ hw' = Absent
    /\ UNCHANGED <<tracerVars, prodVars, chanVars, helpers, crashed, sent,
                   emitCount, minLast, errProbed, errEmitted,
                   firstSeen, cycles, curCycle, recvFail, firstLast, lookups>>

----------------------------------------------------------------------------
(* The consumer of MRun: it receives results and may close the channel *)

MConsume ==
    /\ mode = "MRun" /\ ~crashed /\ cpc = "select"
    /\ ch # <<>>
    /\ ch' = Tail(ch)
    /\ UNCHANGED <<tracerVars, prodVars, chClosed, cpc, cr, cancelled,
                   asnVars, crashed, histVars>>

MConsumeClosed ==
    /\ mode = "MRun" /\ ~crashed /\ cpc = "select"
    /\ ch = <<>> /\ chClosed
    /\ cpc' = "done"
    /\ UNCHANGED <<tracerVars, prodVars, ch, chClosed, cr, cancelled, asnVars,
                   crashed, histVars>>

MCancel ==
    /\ mode = "MRun" /\ ~crashed /\ cpc = "select"
    /\ ~chClosed
    /\ chClosed' = TRUE
    /\ cancelled' = TRUE
    /\ cpc' = "done"
    /\ UNCHANGED <<tracerVars, prodVars, ch, cr, asnVars, crashed, histVars>>

----------------------------------------------------------------------------

Next ==
    \/ Bind
    \/ RunProbe
    \/ RunLoopEnd
    \/ RunWhois
    \/ RunWhoisPanic
    \/ RunSend
    \/ RunSendClosed
    \/ RunCheck
    \/ RunClose
    \/ RunCloseClosed
    \/ RunCloseFd
    \/ PPRecv
    \/ PPSort
    \/ PPRecvClosed
    \/ PPSigint
    \/ MProbe
    \/ MLookupHit
    \/ MLookupMiss
    \/ MLookupFatal
    \/ MSend
    \/ MSendClosed
    \/ MCycleEnd
    \/ MClose
    \/ MCloseClosed
    \/ HLock
    \/ HWhois
    \/ HWhoisPanic
    \/ HStore
    \/ MConsume
    \/ MConsumeClosed
    \/ MCancel

Spec == Init /\ [][Next]_vars

(* the actions of a continuous scan *)
NextReport ==
    \/ Bind
    \/ MProbe
    \/ MLookupHit
    \/ MLookupMiss
    \/ MLookupFatal
    \/ MSend
    \/ MSendClosed
    \/ MCycleEnd
    \/ MClose
    \/ MCloseClosed
    \/ HLock
    \/ HWhois
    \/ HWhoisPanic
    \/ HStore
    \/ MConsume
    \/ MConsumeClosed
    \/ MCancel

SpecReport == InitReport /\ [][NextReport]_vars

(* a continuous scan of a short path with any -c flag, with and without -R *)
CountValues == FlagCValues \cup {-2, 0}
InitCount ==
    /\ mode = "MRun"
    /\ maxTTL \in 0..MaxReportTTL
    /\ report \in BOOLEAN
    /\ flagC \in CountValues
    /\ ripe = TRUE
    /\ budget = MaxProbes
    /\ Defaults
    /\ Start

SpecCount == InitCount /\ [][NextReport]_vars

(* a scan of a short path with any -w flag *)
InitBind ==
    /\ mode \in {"Run", "MRun"}
    /\ maxTTL \in 0..MaxReportTTL
    /\ report = FALSE
    /\ flagC \in {-1, 1}
    /\ ripe = TRUE
    /\ mode = "Run" => flagC = -1
    /\ budget = MaxProbes
    /\ wait \in Waits
    /\ resolve = FALSE
    /\ pSize = DefaultPSize
    /\ proto = "icmp"
    /\ NoPackets
    /\ Start

SpecBind == InitBind /\ [][Next]_vars

(* a scan of a short path without -n: router addresses are resolved *)
InitDNS ==
    /\ mode \in {"Run", "MRun"}
    /\ maxTTL \in 0..MaxReportTTL
    /\ report = FALSE
    /\ flagC \in {-1, 1}
    /\ ripe = TRUE
    /\ mode = "Run" => flagC = -1
    /\ budget = MaxProbes
    /\ wait = DefaultWait
    /\ resolve = TRUE
    /\ pSize = DefaultPSize
    /\ proto = "icmp"
    /\ NoPackets
    /\ Start

SpecDNS == InitDNS /\ [][Next]_vars

----------------------------------------------------------------------------
(* Recv on its own: the call NextHop makes for the first probe of a tracer,
   over every sequence of frames the socket may deliver *)

InitRecv ==
    /\ mode = "Run"
    /\ maxTTL = 1
    /\ report = FALSE
    /\ flagC = -1
    /\ ripe = TRUE
    /\ budget = MaxProbes
    /\ wait = DefaultWait
    /\ resolve = FALSE
    /\ pSize = DefaultPSize
    /\ proto \in {"icmp", "udp"}
    /\ frames \in SeqsUpTo(Frames(FirstSeq), MaxFrames)
    /\ recv = NoRecv
    /\ lport = 0
    /\ msg = NoMsg
    /\ data = <<>>
    /\ sum = NoSum
    /\ Start

(* resp, err := i.Recv(id, seq) with the id and seq Send returned *)
RecvCall ==
    /\ recv = NoRecv
    /\ recv' = Recv(IpId(seq), seq, frames, NoResp)
    /\ UNCHANGED <<mode, maxTTL, count, ripe, report, flagC, budget, wait,
                   resolve, pSize, proto, frames, lport, msg, data, sum,
                   seq, ttl, fd, fdCloses, runErr, prodVars, chanVars,
                   asnVars, crashed, histVars>>

NextRecv == RecvCall

SpecRecv == InitRecv /\ [][NextRecv]_vars

----------------------------------------------------------------------------
(* The UDP probe of Sendv4, for every packet size NewTrace accepts *)

Uint16(x) == x % 65536

(* udpMessage: the header fields as written with binary.Write, and the
   number of zero bytes that follow them *)
udpMessage(lp, rp, size, isIPv4) ==
    LET p == IF isIPv4 THEN size - (20 + 8) ELSE size - (40 + 8)
    IN  [lport |-> Uint16(lp), rport |-> Uint16(rp),
         length |-> Uint16(8 + p), checksum |-> Uint16(0),
         payload |-> IF p > 0 THEN p ELSE 0]

(* NewTrace takes any -p value *)
InitUDP ==
    /\ mode = "Run"
    /\ maxTTL = 1
    /\ report = FALSE
    /\ flagC = -1
    /\ ripe = TRUE
    /\ budget = MaxProbes
    /\ wait = DefaultWait
    /\ resolve = FALSE
    /\ pSize \in 0..MaxPSize
    /\ proto = "udp"
    /\ NoPackets
    /\ Start

(* case i.udp: lport = 64000 + rand.Intn(3)*100;
   b = udpMessage(lport, rport, i.pSize, true) *)
Sendv4 ==
    /\ proto = "udp" /\ msg = NoMsg
    /\ \E k \in 0..2 :
        /\ lport' = 64000 + k * 100
        /\ msg' = udpMessage(lport', Port, pSize, TRUE)
    /\ UNCHANGED <<mode, maxTTL, count, ripe, report, flagC, budget, wait,
                   resolve, pSize, proto, frames, recv, data, sum,
                   seq, ttl, fd, fdCloses, runErr, prodVars, chanVars,
                   asnVars, crashed, histVars>>

NextUDP == Sendv4

SpecUDP == InitUDP /\ [][NextUDP]_vars

----------------------------------------------------------------------------
(* checkSum, for every short byte sequence over a few byte values *)

Bytes == {0, 1, 128, 255}

(* for i := 0; i < length; i += 2 { sum += data[i]<<8 + data[i+1] } from
   index i (counted from 1) on; the uint32 sum wraps only beyond 65537
   words, far above the lengths explored *)
RECURSIVE SumWords(_, _, _, _)
SumWords(d, i, length, s) ==
    IF i > length THEN s
    ELSE SumWords(d, i + 2, length, s + (d[i] * 256 + d[i + 1]))

(* for (sum >> 16) > 0 { sum = (sum >> 16) + (sum & 0xffff) } *)
RECURSIVE Fold(_)
Fold(s) ==
    IF s \div 65536 > 0 THEN Fold((s \div 65536) + (s % 65536))
    ELSE s

(* checkSum(data): length is len(data) with the lowest bit cleared; the byte
   left over when len(data) is odd is added as it is *)
checkSum(d) ==
    LET length == Len(d) - (Len(d) % 2)
        words == SumWords(d, 1, length, 0)
        all == IF Len(d) % 2 # 0 THEN words + d[length + 1] ELSE words
    IN  65535 - (Fold(all) % 65536)

InitSum ==
    /\ mode = "Run"
    /\ maxTTL = 1
    /\ report = FALSE
    /\ flagC = -1
    /\ ripe = TRUE
    /\ budget = MaxProbes
    /\ wait = DefaultWait
    /\ resolve = FALSE
    /\ pSize = DefaultPSize
    /\ proto = "tcp"
    /\ frames = <<>>
    /\ recv = NoRecv
    /\ lport = 0
    /\ msg = NoMsg
    /\ data \in SeqsUpTo(Bytes, MaxDataLen)
    /\ sum = NoSum
    /\ Start

(* checksum = checkSum(header) *)
setTCPCheckSum ==
    /\ sum = NoSum
    /\ sum' = checkSum(data)
    /\ UNCHANGED <<mode, maxTTL, count, ripe, report, flagC, budget, wait,
                   resolve, pSize, proto, frames, recv, lport, msg, data,
                   seq, ttl, fd, fdCloses, runErr, prodVars, chanVars,
                   asnVars, crashed, histVars>>

NextSum == setTCPCheckSum

SpecSum == InitSum /\ [][NextSum]_vars

----------------------------------------------------------------------------
(* Properties.  A step emits when the producer puts a value on the channel;
   the value is the slice r of Run or the variable hop of MRun. *)

Emitting == emitCount' = emitCount + 1
Emitted == IF mode = "Run" THEN Slice(buf, rlen) ELSE <<hop>>
ProducerClosed == chClosed /\ ~cancelled

(* C1: once a result with last = true has been emitted, no result with a
   larger hop number num is emitted afterwards in the same run *)
C1_NoLargerNumAfterLast ==
    [][Emitting /\ minLast # 0
          => \A i \in 1..Len(Emitted) : Emitted[i].num <= minLast]_vars

(* C2: after a probe whose result carries err no further probe is issued,
   and after that result has been emitted nothing more is emitted *)
C2_ErrTerminatesScan ==
    [][/\ errProbed => seq' = seq
       /\ errEmitted => ~Emitting]_vars

(* C3: a producer that has terminated, on whatever path, has closed the
   receive socket *)
C3_SocketClosedOnExit == pc = "done" => fd = "closed"

(* C4: after the consumer has closed the channel nothing more is emitted, the
   producer's next send (or close) ends it without further probes, and once
   it has ended the socket has been closed exactly once *)
C4_CancelReleasesSocketOnce ==
    [][/\ cancelled => ~Emitting
       /\ cancelled /\ pc \in {"send", "close"} /\ pc' # pc
             => pc' = "done" /\ seq' = seq
       /\ cancelled' /\ pc' = "done" => fd' = "closed" /\ fdCloses' = 1
       /\ fdCloses' <= 1]_vars

C4_Witness ==
    /\ cancelled /\ pc = "done" /\ exitKind = "panic"
    /\ fdCloses = 1 /\ emitCount >= 1

(* C5: no state in which the producer of MRun reads the map ASN while a
   helper goroutine is writing it *)
C5_NoReadDuringWrite == ~(mode = "MRun" /\ pc = "lookup" /\ Writing)

(* C6: in MRun the first result emitted for an address carries the zero
   whois, and a result whose probe returned when the cache already held an
   entry for its address carries an entry of the cache *)
C6_EnrichmentLater ==
    [][mode = "MRun" /\ Emitting /\ hop.ip # ""
          => /\ hop.ip \notin firstSeen => hop.whois = NoWhois
             /\ Absent \notin cacheSince
                   => hop.whois \in cacheSince \/ (Writing /\ MU = hop.ip)]_vars

C6_Witness ==
    /\ mode = "MRun" /\ ch # <<>>
    /\ ch[1].ip \in firstSeen /\ ch[1].whois # NoWhois

(* C7: every batch emitted by Run has exactly Retry entries, unless a probe
   failed, in which case the batch ends with the failing result *)
C7_BatchLength ==
    [][mode = "Run" /\ Emitting
          => \/ rlen = Retry
             \/ rlen < Retry /\ rlen >= 1 /\ buf[rlen].err]_vars

(* C8: the k-th batch emitted by Run is the batch of hop k, all its entries
   carry num = k, and at most maxTTL batches are emitted *)
C8_HopOrder ==
    [][mode = "Run" /\ Emitting
          => /\ h = emitCount + 1
             /\ \A i \in 1..rlen : buf[i].num = h
             /\ emitCount + 1 <= maxTTL]_vars

(* C9: the probes of a tracer carry the sequence numbers 1, 2, 3, ... in the
   order they are sent, whether or not a send fails: strictly increasing,
   never repeated *)
C9_SeqStrictlyIncreasing ==
    /\ sent # <<>> => sent[1] = 1
    /\ \A i, j \in 1..Len(sent) : i < j => sent[i] < sent[j]
    /\ \A i \in 1..Len(sent) : sent[i] < seq

C9_Witness ==
    /\ errProbed /\ pc = "lookup" /\ ~hop.err /\ Len(sent) >= 3

(* C10: when MRun with count = N >= 1 closes the channel it has completed
   exactly N cycles, each made of the hops 1..bound in order, N being 10 for
   -R without -c; nothing is emitted after the close *)
CompleteCycle(c) == c.nums = [k \in 1..c.bound |-> k]
C10_ReportCycles ==
    [][mode = "MRun" /\ count >= 1
          => /\ report /\ flagC = -1 => count = DefaultCount
             /\ exitKind' = "normal"
                   => /\ Len(cycles') = count
                      /\ curCycle' = <<>>
                      /\ \A i \in 1..Len(cycles') : CompleteCycle(cycles'[i])
             /\ ProducerClosed => ~Emitting]_vars

C10_Witness ==
    /\ mode = "MRun" /\ report /\ flagC = -1
    /\ exitKind = "normal" /\ Len(cycles) = DefaultCount
    /\ emitCount = DefaultCount

(* C11: when Recv fails, NextHop returns a result with the hop number, empty
   ip, elapsed 0, last = false and no err; the retries of the hop go on, and a
   batch (Run) or result (MRun) of receive failures is followed by the next
   hop instead of the end of the scan *)
IsRecvFailure(x) == x.ip = "" /\ x.elapsed = 0 /\ ~x.last /\ ~x.err
C11_RecvFailureContinues ==
    [][/\ sent' # sent /\ recvFail'
          => /\ mode = "Run"
                => /\ IsRecvFailure(buf'[rlen']) /\ buf'[rlen'].num = h
                   /\ pc' = IF n + 1 < Retry THEN "probe" ELSE "whois"
             /\ mode = "MRun"
                => IsRecvFailure(hop') /\ hop'.num = h /\ pc' = "lookup"
       /\ mode = "MRun" /\ recvFail /\ Emitting
          => pc' = "probe" /\ h' = h + 1
       /\ /\ mode = "Run" /\ pc = "check" /\ pc' # pc
          /\ \A i \in 1..rlen : IsRecvFailure(buf[i])
          => pc' = "probe" /\ h' = h + 1 /\ exitKind' = ""]_vars

C11_Witness ==
    /\ mode = "Run" /\ h = 2 /\ rlen = 1 /\ recvFail /\ Len(sent) = 4
    /\ Len(buf) = 3 /\ buf[2] = HopTimeout(1) /\ buf[3] = HopTimeout(1)

(* C12: in ICMP mode the frame Recv accepts is an echo reply whose id is the
   identifier of the tracer's echo requests and whose seq is the probe's, or
   a time-exceeded or unreachable error that embeds the probe's seq *)
C12_IcmpAcceptsOnlyOwnReply ==
    proto = "icmp" /\ recv # NoRecv /\ ~recv.err
        => \/ /\ recv.resp.typ = EchoReply
              /\ recv.resp.id = IcmpId
              /\ recv.resp.seq = seq
           \/ /\ recv.resp.typ \in {TimeExceeded, Unreachable}
              /\ recv.resp.seq = seq

(* C13: when the wait string does not parse, Run and MRun return an error,
   no probe is sent and nothing is emitted *)
C13_BadWaitIsReturned ==
    ParseDuration(wait).err
        => /\ runErr \in {"", "err"}
           /\ sent = <<>>
           /\ emitCount = 0

(* C14: a UDP probe is built only from a packet size of at least the 28
   bytes of the IPv4 and UDP headers, and its length field is 8 plus the
   number of payload bytes *)
HeaderOverhead == 20 + 8
C14_NoProbeBelowHeaderSize ==
    msg # NoMsg
        => /\ pSize >= HeaderOverhead
           /\ msg.length = 8 + msg.payload

(* C15: checkSum(data) is the Internet checksum of data: the one's-complement
   sum of its big-endian 16-bit words, a last odd byte counting as the high
   byte of a word, inverted *)
RECURSIVE OnesComplementSum(_)
OnesComplementSum(d) ==
    IF d = <<>> THEN 0
    ELSE LET w == IF Len(d) = 1 THEN d[1] * 256 ELSE d[1] * 256 + d[2]
             rest == IF Len(d) <= 2 THEN <<>> ELSE SubSeq(d, 3, Len(d))
             t == w + OnesComplementSum(rest)
         IN  IF t > 65535 THEN t - 65535 ELSE t
InternetChecksum(d) == 65535 - OnesComplementSum(d)
C15_CheckSumIsInternetChecksum ==
    sum # NoSum => sum = InternetChecksum(data)

(* C16: in MRun, from the first emitted result with last = true at hop h on,
   the bound of the inner loop is h and stays h, and every cycle that ends
   from then on has probed exactly the hops 1..h in order *)
C16_ShrinkOnceToFirstLast ==
    [][mode = "MRun"
          => /\ firstLast' # NoLast => curMax' = firstLast'
             /\ cnt' = cnt + 1 /\ firstLast # NoLast
                   => curCycle = [k \in 1..firstLast |-> k]]_vars

(* C17 as claimed: for every -c value other than -1, MRun goes to close the
   channel as soon as that many cycles are complete *)
C17_EveryCountTerminates ==
    [][mode = "MRun" /\ flagC # -1 /\ cnt' = cnt + 1 /\ cnt' >= flagC
          => pc' = "close"]_vars

(* C17 amended: i.count is the -c value, except that -R turns a negative one
   into 10; MRun goes to close the channel at the end of a cycle exactly when
   i.count >= 1 and i.count cycles are complete, and it ends normally only
   then, with the channel closed: for i.count <= 0 the scan is unbounded *)
C17_PositiveCountTerminates ==
    [][mode = "MRun"
          => /\ count = IF report /\ flagC < 0 THEN DefaultCount ELSE flagC
             /\ cnt' = cnt + 1
                   => (pc' = "close" <=> count >= 1 /\ cnt' = count)
             /\ exitKind = "" /\ exitKind' = "normal"
                   => count >= 1 /\ cnt = count /\ chClosed']_vars

C17_Witness ==
    /\ mode = "MRun" /\ flagC = 0 /\ count = 0
    /\ cnt = 2 /\ pc = "probe" /\ ~chClosed /\ emitCount = 2

(* C18: with resolve set, lookupAddr is called at most once for every
   address that answers during one Run or MRun *)
C18_OneLookupPerAddress ==
    resolve => \A ip \in DOMAIN lookups : lookups[ip] <= 1

(* C19: while PrintPretty holds the k-th batch it received from Run, every
   entry of that batch is a result of hop k *)
C19_BatchNotModified ==
    mode = "Run" /\ cpc = "sort"
        => \A i \in 1..cr : buf[i].num = emitCount - Len(ch)

(* C20: neither Run nor PrintPretty executes close on the channel when it is
   already closed *)
C20_ClosedAtMostOnce ==
    [][mode = "Run"
          => /\ ~(chClosed /\ pc = "close" /\ pc' = "done")
             /\ ~(chClosed /\ cpc = "select" /\ cpc' = "done"
                     /\ ~crashed /\ crashed')]_vars

(* C21: when the producer of Run has stopped and the consumer has not
   closed the channel, the producer has closed it, so that a receive ends
   with end-of-stream *)
C21_StoppedProducerHasClosed ==
    mode = "Run" /\ pc = "done" /\ ~cancelled => chClosed

====
